---- MODULE Spec2Model ----
(***************************************************************************)
(* KadeDB services: the FFI crate (services/ffi/src/lib.rs).               *)
(*                                                                         *)
(* The model covers the Storage handle (create / destroy), the synchronous *)
(* execute_query with its ResultSet cursor, the bridged                    *)
(* execute_query_rows_as_strings (future + spawn_blocking worker), and the *)
(* native side of the C contract as a nondeterministic environment.        *)
(*                                                                         *)
(* Text is modelled as a sequence of bytes.  A native C string is a cell   *)
(* [null, bytes]: a null pointer, or a pointer to bytes (terminator not    *)
(* included).  Bytes >= 128 stand for an invalid UTF-8 sequence (the model *)
(* only uses ASCII and 0xFF).                                              *)
(***************************************************************************)
EXTENDS Integers, Sequences, FiniteSets, TLC

\* ------------------------------------------------------------------ bounds
MaxStorages == 1      \* Storage::new attempts in one run
MaxCalls    == 2      \* execute_query / execute_query_rows_as_strings calls
MaxCols     == 2      \* largest native column count of the drain specification
MaxRows     == 2      \* most rows of a native result set

Storages == 1..MaxStorages
Calls    == 1..MaxCalls

\* --------------------------------------------------------------- text, cells
NullPtr       == [null |-> TRUE,  bytes |-> <<>>]
CStrOf(b)     == [null |-> FALSE, bytes |-> b]
None          == [some |-> FALSE, val |-> <<>>]
Some(v)       == [some |-> TRUE,  val |-> v]

\* A to_str that takes any byte sequence for valid text.
Utf8Valid_any(b) == TRUE

\* std::str::from_utf8 as used by CStr::to_str: every byte must be ASCII here.
Utf8Valid(b)  == \A j \in 1..Len(b) : b[j] < 128

\* CString::new fails when the text holds an interior NUL byte.
ContainsNul(q) == \E j \in 1..Len(q) : q[j] = 0

\* Option::unwrap_or_default for Option<String>
unwrap_or_default(o) == IF o.some THEN o.val ELSE <<>>

\* The query texts callers submit: "s" and "s\0t".
Queries == { <<115>>, <<115, 0, 116>> }

\* ------------------------------------------------------- native result sets
Max0(c) == IF c < 0 THEN 0 ELSE c

\* A native result set: the column count it reports and its rows of cells.
ResultShapes(cmax, rmax, cells) ==
    UNION { { [ncols |-> c, rows |-> rs] :
                rs \in UNION { [1..n -> [1..Max0(c) -> cells]] : n \in 0..rmax } } :
            c \in -1..cmax }

\* What the native engine returns to a successful execute-query in the
\* lifecycle specification: one column with the rows ["a"] and [null].  (The
\* drain specification ranges over all of DrainShapes.)
LifeShapes ==
    { [ncols |-> 1,  rows |-> << <<CStrOf(<<97>>)>>, <<NullPtr>> >>] }

\* The cells of the drain specification: null, "a", invalid UTF-8.
DrainCells == { NullPtr, CStrOf(<<97>>), CStrOf(<<255>>) }
DrainShapes == ResultShapes(MaxCols, MaxRows, DrainCells)

NoShape == [ncols |-> 0, rows |-> <<>>]

\* ------------------------------------------------------------------- state
VARIABLES
    hs,       \* hs[s]: the Storage instance of the s-th Storage::new, and its native resource
    calls,    \* calls[k]: the k-th query call (sync, or bridged: future and worker)
    res,      \* res[k]: the native result resource of call k and the ResultSet owning it
    crashed   \* the process died inside a native call made on a freed resource

vars == <<hs, calls, res, crashed>>

NoOutcome  == [tag |-> "None",  err |-> "",  rows |-> <<>>]
OkRows(r)  == [tag |-> "Ok",    err |-> "",  rows |-> r]
OkCursor   == [tag |-> "Ok",    err |-> "",  rows |-> <<>>]
Err(e)     == [tag |-> "Err",   err |-> e,   rows |-> <<>>]
Panic(m)   == [tag |-> "Panic", err |-> m,   rows |-> <<>>]

NoFrame == [pc |-> "idle", cols |-> 0, i |-> 0, row |-> <<>>, out |-> <<>>]

\* st: "none" (not attempted), "failed" (Storage::new returned Err), "owned", "dropped"
\* ret: what KadeDB_CreateStorage returned (-1 not called, 0 null, else the address)
\* raw: the NonNull field of the Storage instance
\* dsCalls: KadeDB_DestroyStorage calls made on the address
\* uad: a native call used the resource after it was destroyed
NoStorage == [st |-> "none", ret |-> -1, raw |-> 0, dsCalls |-> 0, uad |-> FALSE]

NoCall == [kind |-> "none", sid |-> 0, query |-> <<>>, fut |-> "none", wpc |-> "none",
           token |-> 0, execs |-> 0, execRet |-> -1, join |-> NoOutcome, got |-> NoOutcome]

NoResult == [made |-> FALSE, sid |-> 0, ncols |-> 0, rows |-> <<>>, pos |-> 0,
             owner |-> "none", drCalls |-> 0, fr |-> NoFrame]

Init ==
    /\ hs = [s \in Storages |-> NoStorage]
    /\ calls = [k \in Calls |-> NoCall]
    /\ res = [k \in Calls |-> NoResult]
    /\ crashed = FALSE

StorageDestroyed(addr) == \E s \in Storages : hs[s].ret = addr /\ hs[s].dsCalls > 0

\* ------------------------------------------------------------- Storage::new
\* KadeDB_CreateStorage: null, or the address of a fresh resource.
CreateStorageRets(s) == {0, s}

\* A Storage::new that wraps whatever pointer the native call returned.
Storage_new_unchecked(s, ret) ==
    [NoStorage EXCEPT !.st = "owned", !.ret = ret, !.raw = ret]

Storage_new(s, ret) ==
    IF ret = 0
    THEN [NoStorage EXCEPT !.st = "failed", !.ret = ret]
    ELSE [NoStorage EXCEPT !.st = "owned", !.ret = ret, !.raw = ret]

StorageNew(s) ==
    /\ ~crashed
    /\ hs[s].st = "none"
    /\ \A t \in Storages : t < s => hs[t].st # "none"
    /\ \E ret \in CreateStorageRets(s) : hs' = [hs EXCEPT ![s] = Storage_new(s, ret)]
    /\ UNCHANGED <<calls, res, crashed>>

\* ------------------------------------------------------------ Drop for Storage
Storage_drop(h) == [h EXCEPT !.st = "dropped", !.dsCalls = @ + 1]

\* A live future of execute_query_rows_as_strings borrows the Storage (&self),
\* so the owner cannot be dropped while one exists.  A ResultSet carries no
\* lifetime and a detached worker holds only the numeric token: neither
\* keeps the Storage alive.
Borrowed(s) == \E k \in Calls : calls[k].sid = s /\ calls[k].fut \in {"created", "awaiting"}

StorageDrop(s) ==
    /\ ~crashed
    /\ hs[s].st = "owned"
    /\ ~Borrowed(s)
    /\ hs' = [hs EXCEPT ![s] = Storage_drop(@)]
    /\ UNCHANGED <<calls, res, crashed>>

\* ------------------------------------------------------ native execute-query
\* KadeDB_ExecuteQuery on the resource at addr: null or a fresh result set; on
\* a destroyed resource the call is undefined and may also kill the process.
ExecuteQueryRets(addr) ==
    { [kind |-> "null", shape |-> NoShape] }
        \cup { [kind |-> "ptr", shape |-> sh] : sh \in LifeShapes }
        \cup (IF StorageDestroyed(addr) THEN { [kind |-> "crash", shape |-> NoShape] } ELSE {})

\* The pointer execute-query returned to call k: 0 is null, -1 means the call
\* never returned.
NativeRet(k, r) == CASE r.kind = "ptr" -> k [] r.kind = "null" -> 0 [] OTHER -> -1

\* The native side's bookkeeping of one execute-query call on addr.
MarkUse(addr) ==
    [s \in Storages |->
        IF hs[s].ret = addr /\ hs[s].dsCalls > 0 THEN [hs[s] EXCEPT !.uad = TRUE] ELSE hs[s]]

\* ResultSet { raw: rs } around a non-null native result
ResultSet_new(addr, shape, owner, pc) ==
    [made |-> TRUE, sid |-> addr, ncols |-> shape.ncols, rows |-> shape.rows, pos |-> 0,
     owner |-> owner, drCalls |-> 0, fr |-> [NoFrame EXCEPT !.pc = pc]]

\* A Drop for ResultSet that forgets to call KadeDB_DestroyResultSet.
ResultSet_drop_leak(n) ==
    [n EXCEPT !.owner = "dropped", !.ncols = 0, !.rows = <<>>, !.fr = NoFrame]

\* Drop for ResultSet: KadeDB_DestroyResultSet frees the native rows, and the
\* wrapper with its locals is gone (pos stays as the position at release).
ResultSet_drop(n) ==
    [n EXCEPT !.owner = "dropped", !.drCalls = @ + 1,
              !.ncols = 0, !.rows = <<>>, !.fr = NoFrame]

NextCall(k) == calls[k].kind = "none" /\ \A j \in Calls : j < k => calls[j].kind # "none"

\* ------------------------------------------------- Storage::execute_query
\* An execute_query that does not test the returned pointer for null.
execute_query_outcome_unchecked(r) == OkCursor

\* NonNull::new(rs).ok_or(FfiError::ExecuteQueryFailed)
execute_query_outcome(r) == IF r.kind = "null" THEN Err("ExecuteQueryFailed") ELSE OkCursor

ExecuteQuery(k, s, q) ==
    /\ ~crashed
    /\ NextCall(k)
    /\ hs[s].st = "owned"
    /\ IF ContainsNul(q)
       THEN /\ calls' = [calls EXCEPT ![k] = [NoCall EXCEPT !.kind = "sync", !.sid = s,
                             !.query = q, !.got = Panic("query contains NUL")]]
            /\ UNCHANGED <<hs, res, crashed>>
       ELSE \E r \in ExecuteQueryRets(hs[s].raw) :
            /\ hs' = MarkUse(hs[s].raw)
            /\ crashed' = (r.kind = "crash")
            /\ calls' = [calls EXCEPT ![k] = [NoCall EXCEPT !.kind = "sync", !.sid = s,
                             !.query = q, !.execs = 1,
                             !.execRet = NativeRet(k, r),
                             !.got = IF r.kind = "crash" THEN NoOutcome
                                     ELSE execute_query_outcome(r)]]
            /\ res' = IF r.kind = "ptr"
                      THEN [res EXCEPT ![k] = ResultSet_new(hs[s].raw, r.shape, "sync", "idle")]
                      ELSE res

\* ------------------------------------------------------ ResultSet accessors
\* KadeDB_ResultSet_ColumnCount
column_count(n) == n.ncols

\* KadeDB_ResultSet_NextRow: 1 while a row is available, 0 from exhaustion on.
NativeNextRow(n) == IF n.pos < Len(n.rows) THEN 1 ELSE 0
Advance(n) == [n EXCEPT !.pos = IF @ < Len(n.rows) THEN @ + 1 ELSE Len(n.rows) + 1]
next_row(n) == NativeNextRow(n) # 0

\* KadeDB_ResultSet_GetString: the cell of the current row, null when there is none.
NativeGetString(n, col) ==
    IF n.pos \in 1..Len(n.rows) /\ col >= 0 /\ col < Len(n.rows[n.pos])
    THEN n.rows[n.pos][col + 1]
    ELSE NullPtr

\* A get_string that ignores its column argument and reads column 0.
get_string_first(n, col) ==
    LET ptr == NativeGetString(n, 0) IN
    IF ptr.null THEN None
    ELSE IF ~Utf8Valid(ptr.bytes) THEN None
    ELSE Some(ptr.bytes)

get_string(n, col) ==
    LET ptr == NativeGetString(n, col) IN
    IF ptr.null THEN None
    ELSE IF ~Utf8Valid(ptr.bytes) THEN None
    ELSE Some(ptr.bytes)

\* An all_rows_as_strings without the early return.
EarlyReturn_never(cols) == FALSE

\* An early return that also takes a column count of zero.
EarlyReturn_le0(cols) == cols <= 0

\* if cols < 0 { return Ok(vec![]); }
EarlyReturn(cols) == cols < 0

\* One step of all_rows_as_strings, between two native calls:
\*   "cc"   column_count() and the cols < 0 early return
\*   "next" next_row(); a row of no columns is pushed at once
\*   "get"  get_string(i).unwrap_or_default() pushed to the row; the row is
\*          pushed to out after its last column
\*   "ret"  Ok(out) returned
all_rows_as_strings(n) ==
    LET f == n.fr IN
    CASE f.pc = "cc" ->
            LET cols == column_count(n) IN
            IF EarlyReturn(cols)
            THEN [n EXCEPT !.fr = [f EXCEPT !.pc = "ret", !.cols = cols, !.out = <<>>]]
            ELSE [n EXCEPT !.fr = [f EXCEPT !.pc = "next", !.cols = cols, !.out = <<>>]]
      [] f.pc = "next" ->
            IF next_row(n)
            THEN IF 0 < f.cols
                 THEN [Advance(n) EXCEPT !.fr = [f EXCEPT !.pc = "get", !.i = 0, !.row = <<>>]]
                 ELSE [Advance(n) EXCEPT !.fr = [f EXCEPT !.out = Append(@, <<>>)]]
            ELSE [Advance(n) EXCEPT !.fr = [f EXCEPT !.pc = "ret"]]
      [] f.pc = "get" ->
            LET row == Append(f.row, unwrap_or_default(get_string(n, f.i))) IN
            IF f.i + 1 < f.cols
            THEN [n EXCEPT !.fr = [f EXCEPT !.i = @ + 1, !.row = row]]
            ELSE [n EXCEPT !.fr = [f EXCEPT !.pc = "next", !.i = 0, !.row = <<>>,
                                            !.out = Append(@, row)]]
      [] OTHER -> n

\* The caller enters all_rows_as_strings on a fresh cursor it holds.
CallAllRows(k) ==
    /\ ~crashed
    /\ res[k].made /\ res[k].owner = "sync" /\ res[k].fr.pc = "idle" /\ res[k].pos = 0
    /\ res' = [res EXCEPT ![k].fr.pc = "cc"]
    /\ UNCHANGED <<hs, calls, crashed>>

\* all_rows_as_strings advances by one native call (caller's or worker's cursor).
DrainStep(k) ==
    /\ ~crashed
    /\ res[k].made /\ res[k].owner \in {"sync", "worker"}
    /\ res[k].fr.pc \in {"cc", "next", "get"}
    /\ res' = [res EXCEPT ![k] = all_rows_as_strings(@)]
    /\ UNCHANGED <<hs, calls, crashed>>

\* The caller advances a cursor it holds by hand (partial consumption).
SyncNextRow(k) ==
    /\ ~crashed
    /\ res[k].made /\ res[k].owner = "sync" /\ res[k].fr.pc = "idle"
    /\ res[k].pos <= Len(res[k].rows)
    /\ res' = [res EXCEPT ![k] = Advance(@)]
    /\ UNCHANGED <<hs, calls, crashed>>

\* The caller drops a cursor it holds, consumed or not.
DropResultSet(k) ==
    /\ ~crashed
    /\ res[k].made /\ res[k].owner = "sync" /\ res[k].fr.pc \in {"idle", "ret"}
    /\ res' = [res EXCEPT ![k] = ResultSet_drop(@)]
    /\ UNCHANGED <<hs, calls, crashed>>

\* ------------------------------- Storage::execute_query_rows_as_strings
\* Calling the async fn creates the future; nothing runs before the first poll.
AsyncRequest(k, s, q) ==
    /\ ~crashed
    /\ NextCall(k)
    /\ hs[s].st = "owned"
    /\ calls' = [calls EXCEPT ![k] = [NoCall EXCEPT !.kind = "async", !.sid = s,
                     !.query = q, !.fut = "created"]]
    /\ UNCHANGED <<hs, res, crashed>>

\* StorageRaw(self.raw.as_ptr() as usize)
StorageRaw(h) == h.raw

\* A first poll that makes the native call on the polling thread instead of
\* handing the closure to spawn_blocking.
Dispatch_inline(k) ==
    /\ ~crashed
    /\ calls[k].fut = "created"
    /\ ~ContainsNul(calls[k].query)
    /\ \E r \in ExecuteQueryRets(hs[calls[k].sid].raw) :
        /\ hs' = MarkUse(hs[calls[k].sid].raw)
        /\ crashed' = (r.kind = "crash")
        /\ calls' = [calls EXCEPT ![k] =
                        [@ EXCEPT !.fut = "awaiting", !.token = hs[calls[k].sid].raw,
                                  !.execs = @ + 1, !.execRet = NativeRet(k, r),
                                  !.wpc = IF r.kind = "null" THEN "done" ELSE "drain",
                                  !.join = IF r.kind = "null"
                                           THEN Err("ExecuteQueryFailed") ELSE @]]
        /\ res' = IF r.kind = "ptr"
                  THEN [res EXCEPT ![k] = ResultSet_new(hs[calls[k].sid].raw, r.shape, "worker", "cc")]
                  ELSE res

\* First poll: the token is taken and the closure is handed to spawn_blocking.
Dispatch(k) ==
    /\ ~crashed
    /\ calls[k].fut = "created"
    /\ calls' = [calls EXCEPT ![k] = [@ EXCEPT !.fut = "awaiting", !.wpc = "queued",
                                              !.token = StorageRaw(hs[calls[k].sid])]]
    /\ UNCHANGED <<hs, res, crashed>>

\* A worker that passes the text on without looking for a NUL byte.
WorkerStart_NoCheck(k) ==
    /\ ~crashed
    /\ calls[k].wpc = "queued"
    /\ calls' = [calls EXCEPT ![k].wpc = "exec"]
    /\ UNCHANGED <<hs, res, crashed>>

\* The worker starts the closure: CString::new(query).expect("query contains NUL").
WorkerStart(k) ==
    /\ ~crashed
    /\ calls[k].wpc = "queued"
    /\ calls' = [calls EXCEPT ![k] =
                    IF ContainsNul(calls[k].query)
                    THEN [@ EXCEPT !.wpc = "panicked", !.join = Panic("query contains NUL")]
                    ELSE [@ EXCEPT !.wpc = "exec"]]
    /\ UNCHANGED <<hs, res, crashed>>

\* The runtime shuts down before the queued closure ran: the task is cancelled.
WorkerCancel(k) ==
    /\ ~crashed
    /\ calls[k].wpc = "queued"
    /\ calls' = [calls EXCEPT ![k].wpc = "cancelled"]
    /\ UNCHANGED <<hs, res, crashed>>

\* A worker that takes a null result for an empty result set.
WorkerExec_null_as_empty(k) ==
    /\ ~crashed
    /\ calls[k].wpc = "exec"
    /\ \E r \in ExecuteQueryRets(calls[k].token) :
        /\ hs' = MarkUse(calls[k].token)
        /\ crashed' = (r.kind = "crash")
        /\ calls' = [calls EXCEPT ![k] =
                        [@ EXCEPT !.execs = @ + 1,
                                  !.execRet = NativeRet(k, r),
                                  !.wpc = CASE r.kind = "null" -> "done"
                                            [] r.kind = "ptr" -> "drain"
                                            [] OTHER -> @,
                                  !.join = IF r.kind = "null" THEN OkRows(<<>>) ELSE @]]
        /\ res' = IF r.kind = "ptr"
                  THEN [res EXCEPT ![k] = ResultSet_new(calls[k].token, r.shape, "worker", "cc")]
                  ELSE res

\* The worker calls KadeDB_ExecuteQuery on the token; on a null result the
\* closure returns Err(ExecuteQueryFailed), otherwise the ResultSet is built
\* and all_rows_as_strings is entered.
WorkerExec(k) ==
    /\ ~crashed
    /\ calls[k].wpc = "exec"
    /\ \E r \in ExecuteQueryRets(calls[k].token) :
        /\ hs' = MarkUse(calls[k].token)
        /\ crashed' = (r.kind = "crash")
        /\ calls' = [calls EXCEPT ![k] =
                        [@ EXCEPT !.execs = @ + 1,
                                  !.execRet = NativeRet(k, r),
                                  !.wpc = CASE r.kind = "null" -> "done"
                                            [] r.kind = "ptr" -> "drain"
                                            [] OTHER -> @,
                                  !.join = IF r.kind = "null"
                                           THEN Err("ExecuteQueryFailed") ELSE @]]
        /\ res' = IF r.kind = "ptr"
                  THEN [res EXCEPT ![k] = ResultSet_new(calls[k].token, r.shape, "worker", "cc")]
                  ELSE res

\* A worker that hands the rows back while its ResultSet is still alive.
WorkerDropRs_NoDrop(k) ==
    /\ ~crashed
    /\ calls[k].wpc = "drain"
    /\ res[k].fr.pc = "ret"
    /\ calls' = [calls EXCEPT ![k] = [@ EXCEPT !.wpc = "done", !.join = OkRows(res[k].fr.out)]]
    /\ UNCHANGED <<hs, res, crashed>>

\* A worker that treats the token as an owning Storage and destroys the
\* storage when its closure ends.
WorkerDropRs_owning(k) ==
    /\ ~crashed
    /\ calls[k].wpc = "drain"
    /\ res[k].fr.pc = "ret"
    /\ res' = [res EXCEPT ![k] = ResultSet_drop(@)]
    /\ calls' = [calls EXCEPT ![k] = [@ EXCEPT !.wpc = "done", !.join = OkRows(res[k].fr.out)]]
    /\ hs' = [s \in Storages |->
                IF hs[s].ret = calls[k].token THEN [hs[s] EXCEPT !.dsCalls = @ + 1] ELSE hs[s]]
    /\ UNCHANGED crashed

\* A worker that returns the row list of the first call's frame, as if the
\* workers shared one output buffer.
WorkerDropRs_shared_out(k) ==
    /\ ~crashed
    /\ calls[k].wpc = "drain"
    /\ res[k].fr.pc = "ret"
    /\ res' = [res EXCEPT ![k] = ResultSet_drop(@)]
    /\ calls' = [calls EXCEPT ![k] = [@ EXCEPT !.wpc = "done", !.join = OkRows(res[1].fr.out)]]
    /\ UNCHANGED <<hs, crashed>>

\* all_rows_as_strings returned: rs goes out of scope (Drop for ResultSet) and
\* the closure returns Ok(out); the JoinHandle becomes ready.
WorkerDropRs(k) ==
    /\ ~crashed
    /\ calls[k].wpc = "drain"
    /\ res[k].fr.pc = "ret"
    /\ res' = [res EXCEPT ![k] = ResultSet_drop(@)]
    /\ calls' = [calls EXCEPT ![k] = [@ EXCEPT !.wpc = "done", !.join = OkRows(res[k].fr.out)]]
    /\ UNCHANGED <<hs, crashed>>

\* A JoinHandle that is ready as soon as the closure was handed over.
WorkerFinished_early(c) == c.wpc # "none"

WorkerFinished(c) == c.wpc \in {"done", "panicked", "cancelled"}

\* An await that turns a JoinError into an empty row list.
await_expect_swallow(c) ==
    IF c.wpc \in {"panicked", "cancelled"}
    THEN [c EXCEPT !.fut = "returned", !.got = OkRows(<<>>)]
    ELSE [c EXCEPT !.fut = "returned", !.got = c.join]

\* .await.expect("spawn_blocking"): a JoinError (panic or cancellation of the
\* worker) panics the caller; otherwise the closure's value is returned.
await_expect(c) ==
    IF c.wpc \in {"panicked", "cancelled"}
    THEN [c EXCEPT !.fut = "panicked", !.got = Panic("spawn_blocking")]
    ELSE [c EXCEPT !.fut = "returned", !.got = c.join]

Deliver(k) ==
    /\ ~crashed
    /\ calls[k].fut = "awaiting"
    /\ WorkerFinished(calls[k])
    /\ calls' = [calls EXCEPT ![k] = await_expect(@)]
    /\ UNCHANGED <<hs, res, crashed>>

\* A give-up that aborts the worker of the call.
GiveUp_abort(k) ==
    /\ ~crashed
    /\ calls[k].fut \in {"created", "awaiting"}
    /\ calls' = [calls EXCEPT ![k] =
                    [@ EXCEPT !.fut = "dropped",
                              !.wpc = IF @ \in {"queued", "exec", "drain"} THEN "cancelled" ELSE @]]
    /\ UNCHANGED <<hs, res, crashed>>

\* The caller stops waiting (timeout, select, drop): the future is dropped, the
\* JoinHandle with it; a dispatched worker is detached, not cancelled.
GiveUp(k) ==
    /\ ~crashed
    /\ calls[k].fut \in {"created", "awaiting"}
    /\ calls' = [calls EXCEPT ![k].fut = "dropped"]
    /\ UNCHANGED <<hs, res, crashed>>

\* ------------------------------------------------------------ specification
Next ==
    \/ \E s \in Storages : StorageNew(s)
    \/ \E s \in Storages : StorageDrop(s)
    \/ \E k \in Calls, s \in Storages, q \in Queries : ExecuteQuery(k, s, q)
    \/ \E k \in Calls : DrainStep(k)
    \/ \E k \in Calls : SyncNextRow(k)
    \/ \E k \in Calls : DropResultSet(k)
    \/ \E k \in Calls, s \in Storages, q \in Queries : AsyncRequest(k, s, q)
    \/ \E k \in Calls : Dispatch(k)
    \/ \E k \in Calls : WorkerStart(k)
    \/ \E k \in Calls : WorkerCancel(k)
    \/ \E k \in Calls : WorkerExec(k)
    \/ \E k \in Calls : WorkerDropRs(k)
    \/ \E k \in Calls : Deliver(k)
    \/ \E k \in Calls : GiveUp(k)

Spec == Init /\ [][Next]_vars

\* ------------------------------------------------- the drain specification
\* A Storage was created, execute_query returned a cursor over any result set
\* of DrainShapes, and the caller drains it with all_rows_as_strings.
InitDrain ==
    /\ hs = [s \in Storages |-> IF s = 1 THEN Storage_new(1, 1) ELSE NoStorage]
    /\ calls = [k \in Calls |->
                 IF k = 1
                 THEN [NoCall EXCEPT !.kind = "sync", !.sid = 1, !.query = <<115>>,
                                     !.execs = 1, !.execRet = 1, !.got = OkCursor]
                 ELSE NoCall]
    /\ \E sh \in DrainShapes :
          res = [k \in Calls |-> IF k = 1 THEN ResultSet_new(1, sh, "sync", "idle")
                                          ELSE NoResult]
    /\ crashed = FALSE

NextDrain ==
    \/ \E k \in Calls : CallAllRows(k)
    \/ \E k \in Calls : DrainStep(k)
    \/ \E k \in Calls : DropResultSet(k)

SpecDrain == InitDrain /\ [][NextDrain]_vars

\* --------------------------------------------- the scheduling specification
\* One scheduler thread runs the caller's task and other lightweight tasks;
\* the closures of spawn_blocking run on the blocking pool.  A task holds the
\* scheduler thread for as long as a call it made has not returned.

\* A caller whose task waits for the worker by blocking its thread.
HoldsScheduler_blocking_wait(c) ==
    \/ c.kind = "sync" /\ c.fut = "native"
    \/ c.kind = "async" /\ c.fut = "awaiting"

\* The task of call c keeps the scheduler thread: it is inside the native
\* call of the synchronous execute_query.  A bridged call at .await has
\* returned Pending and left the thread.
HoldsScheduler(c) == c.kind = "sync" /\ c.fut = "native"

SchedulerFree == \A j \in Calls : ~HoldsScheduler(calls[j])

\* The caller's task enters execute_query with a text free of NUL and is now
\* inside KadeDB_ExecuteQuery, on the scheduler thread.
SyncEnter(k, s, q) ==
    /\ ~crashed /\ SchedulerFree
    /\ NextCall(k)
    /\ hs[s].st = "owned"
    /\ ~ContainsNul(q)
    /\ calls' = [calls EXCEPT ![k] = [NoCall EXCEPT !.kind = "sync", !.sid = s,
                     !.query = q, !.fut = "native"]]
    /\ UNCHANGED <<hs, res, crashed>>

\* KadeDB_ExecuteQuery returns to execute_query, which returns to the task.
SyncReturn(k) ==
    /\ ~crashed
    /\ calls[k].kind = "sync" /\ calls[k].fut = "native"
    /\ \E r \in ExecuteQueryRets(hs[calls[k].sid].raw) :
        /\ hs' = MarkUse(hs[calls[k].sid].raw)
        /\ crashed' = (r.kind = "crash")
        /\ calls' = [calls EXCEPT ![k] =
                        [@ EXCEPT !.fut = "none", !.execs = 1,
                                  !.execRet = NativeRet(k, r),
                                  !.got = IF r.kind = "crash" THEN NoOutcome
                                          ELSE execute_query_outcome(r)]]
        /\ res' = IF r.kind = "ptr"
                  THEN [res EXCEPT ![k] = ResultSet_new(hs[calls[k].sid].raw, r.shape, "sync", "idle")]
                  ELSE res

\* Another task is spawned on the scheduler (it makes no native call).
LightSpawn(k) ==
    /\ ~crashed /\ SchedulerFree
    /\ NextCall(k)
    /\ calls' = [calls EXCEPT ![k] = [NoCall EXCEPT !.kind = "light", !.fut = "ready"]]
    /\ UNCHANGED <<hs, res, crashed>>

\* The scheduler thread, being free, runs the lightweight task to its end.
LightRun(k) ==
    /\ ~crashed /\ SchedulerFree
    /\ calls[k].kind = "light" /\ calls[k].fut = "ready"
    /\ calls' = [calls EXCEPT ![k].fut = "finished"]
    /\ UNCHANGED <<hs, res, crashed>>

NextSched ==
    \/ \E s \in Storages : SchedulerFree /\ StorageNew(s)
    \/ \E k \in Calls, s \in Storages, q \in Queries : SyncEnter(k, s, q)
    \/ \E k \in Calls : SyncReturn(k)
    \/ \E k \in Calls : SchedulerFree /\ DropResultSet(k)
    \/ \E k \in Calls, s \in Storages, q \in Queries : SchedulerFree /\ AsyncRequest(k, s, q)
    \/ \E k \in Calls : SchedulerFree /\ Dispatch(k)
    \/ \E k \in Calls : WorkerStart(k)
    \/ \E k \in Calls : WorkerExec(k)
    \/ \E k \in Calls : DrainStep(k)
    \/ \E k \in Calls : WorkerDropRs(k)
    \/ \E k \in Calls : SchedulerFree /\ Deliver(k)
    \/ \E k \in Calls : LightSpawn(k)
    \/ \E k \in Calls : LightRun(k)

SpecSched == Init /\ [][NextSched]_vars

\* ------------------------------------------- the concurrency specification
\* Every call is a bridged call on the one Storage, dispatched and awaited;
\* each worker's KadeDB_ExecuteQuery has returned the result set the engine
\* holds for the call's query, and the workers drain concurrently.
ConcQueries == { <<97>>, <<98>> }

\* The engine's result for a query: two rows of two columns built from its text.
FakeData(q) ==
    [ncols |-> 2, rows |-> << <<CStrOf(q), NullPtr>>, <<CStrOf(<<255>>), CStrOf(q)>> >>]

InitConc ==
    /\ hs = [s \in Storages |-> IF s = 1 THEN Storage_new(1, 1) ELSE NoStorage]
    /\ \E qs \in [Calls -> ConcQueries] :
        /\ calls = [k \in Calls |->
                     [NoCall EXCEPT !.kind = "async", !.sid = 1, !.query = qs[k],
                                    !.fut = "awaiting", !.wpc = "drain",
                                    !.token = StorageRaw(Storage_new(1, 1)),
                                    !.execs = 1, !.execRet = k]]
        /\ res = [k \in Calls |-> ResultSet_new(1, FakeData(qs[k]), "worker", "cc")]
    /\ crashed = FALSE

NextConc ==
    \/ \E k \in Calls : DrainStep(k)
    \/ \E k \in Calls : WorkerDropRs(k)
    \/ \E k \in Calls : Deliver(k)

\* Every worker thread of the blocking pool keeps running, and a task woken
\* by its JoinHandle is polled again.
FairConc ==
    \A k \in Calls : WF_vars(DrainStep(k)) /\ WF_vars(WorkerDropRs(k)) /\ WF_vars(Deliver(k))

SpecConc == InitConc /\ [][NextConc]_vars /\ FairConc

\* ------------------------------------------- the equivalence specification
\* The two forms side by side on a live Storage: execute_query followed at
\* once by all_rows_as_strings and the drop of the cursor, and
\* execute_query_rows_as_strings awaited to its end.
NextEquiv ==
    \/ \E s \in Storages : StorageNew(s)
    \/ \E k \in Calls, s \in Storages, q \in Queries : ExecuteQuery(k, s, q)
    \/ \E k \in Calls : CallAllRows(k)
    \/ \E k \in Calls : DrainStep(k)
    \/ \E k \in Calls : DropResultSet(k)
    \/ \E k \in Calls, s \in Storages, q \in Queries : AsyncRequest(k, s, q)
    \/ \E k \in Calls : Dispatch(k)
    \/ \E k \in Calls : WorkerStart(k)
    \/ \E k \in Calls : WorkerExec(k)
    \/ \E k \in Calls : WorkerDropRs(k)
    \/ \E k \in Calls : Deliver(k)

SpecEquiv == Init /\ [][NextEquiv]_vars

\* ------------------------------------------ the precondition specification
\* The documented precondition of destruction, for the Storage s: every
\* cursor execute_query returned on it has been dropped, and every bridged
\* call on it was awaited to its end.
Precondition(s) ==
    \A k \in Calls :
        calls[k].sid = s =>
            /\ calls[k].kind = "sync" => (res[k].made => res[k].owner = "dropped")
            /\ calls[k].kind = "async" => calls[k].fut \in {"returned", "panicked"}

\* A caller that drops the Storage only when the precondition holds.
StorageDropPre(s) == Precondition(s) /\ StorageDrop(s)

NextPre ==
    \/ \E s \in Storages : StorageNew(s)
    \/ \E s \in Storages : StorageDropPre(s)
    \/ \E k \in Calls, s \in Storages, q \in Queries : ExecuteQuery(k, s, q)
    \/ \E k \in Calls : DrainStep(k)
    \/ \E k \in Calls : SyncNextRow(k)
    \/ \E k \in Calls : DropResultSet(k)
    \/ \E k \in Calls, s \in Storages, q \in Queries : AsyncRequest(k, s, q)
    \/ \E k \in Calls : Dispatch(k)
    \/ \E k \in Calls : WorkerStart(k)
    \/ \E k \in Calls : WorkerCancel(k)
    \/ \E k \in Calls : WorkerExec(k)
    \/ \E k \in Calls : WorkerDropRs(k)
    \/ \E k \in Calls : Deliver(k)
    \/ \E k \in Calls : GiveUp(k)

SpecPre == Init /\ [][NextPre]_vars

\* =================================================== services: auth, REST, gRPC
\* The service specifications use the same variables: calls[k] is the k-th
\* request to a service (REST or gRPC) and res[k] the response stream of a
\* gRPC request; hs and crashed are not touched (no service calls the FFI
\* crate).

\* Option<String> / Option<&str>
NoText     == [some |-> FALSE, val |-> ""]
Text(s)    == [some |-> TRUE,  val |-> s]

\* ------------------------------------------------------------- AuthConfig
\* AuthConfig { enabled, jwt_secret }
Configs == [enabled : BOOLEAN, jwt_secret : {NoText, Text("secret")}]

\* ------------------------------------------------------- tokens and headers
\* A bearer token: text that is a well-formed JWT or not; a well-formed one
\* was signed (HS256) with some key and carries a role claim or none.
NotAJwt == [wellformed |-> FALSE, key |-> "", role |-> NoText]
Jwt(key, role) == [wellformed |-> TRUE, key |-> key, role |-> role]

RoleClaims == {NoText, Text("read"), Text("write"), Text("admin"), Text("Admin")}
Tokens == {NotAJwt} \cup {Jwt(key, r) : key \in {"secret", "other"}, r \in RoleClaims}

\* The Authorization header of a request: absent, a value that is not
\* visible ASCII, or text made of a scheme prefix and a token.
NoHeader      == [present |-> FALSE, text |-> FALSE, prefix |-> "", token |-> NotAJwt]
BinaryHeader  == [present |-> TRUE,  text |-> FALSE, prefix |-> "", token |-> NotAJwt]
HeaderOf(p, t) == [present |-> TRUE, text |-> TRUE, prefix |-> p, token |-> t]
Headers ==
    {NoHeader, BinaryHeader, HeaderOf("Basic ", Jwt("secret", Text("admin"))),
     HeaderOf("bearer ", Jwt("secret", Text("admin")))}
        \cup {HeaderOf("Bearer ", t) : t \in Tokens}

\* req.headers().get(AUTHORIZATION).and_then(|v| v.to_str().ok())
header_text(h) == h.present /\ h.text

\* ------------------------------------------------- authorize_bearer_header
AuthOk(role)  == [ok |-> TRUE,  role |-> role, err |-> ""]
AuthErr(e)    == [ok |-> FALSE, role |-> NoText, err |-> e]
NoAuth        == [ok |-> FALSE, role |-> NoText, err |-> "none"]

\* jsonwebtoken::decode with the configured secret: the claims, or an error.
decode(token, secret) == token.wellformed /\ token.key = secret

\* role_from_claims: Ok(role), MissingRole or UnknownRole.
role_from_claims(claims) ==
    IF ~claims.role.some THEN AuthErr("MissingRole")
    ELSE IF claims.role.val = "read" THEN AuthOk(Text("Read"))
    ELSE IF claims.role.val = "write" THEN AuthOk(Text("Write"))
    ELSE IF claims.role.val = "admin" THEN AuthOk(Text("Admin"))
    ELSE AuthErr("UnknownRole")

\* A role_allows that lets every known role do everything.
role_allows_all(role, permission) == TRUE

role_allows(role, permission) ==
    CASE role = "Admin" -> TRUE
      [] role = "Write" /\ permission = "Read" -> TRUE
      [] role = "Write" /\ permission = "Write" -> TRUE
      [] role = "Read" /\ permission = "Read" -> TRUE
      [] OTHER -> FALSE

\* An authorization that admits every request when no secret is configured.
authorize_bearer_header_open(cfg, h, required) ==
    IF ~cfg.enabled \/ ~cfg.jwt_secret.some THEN AuthOk(NoText)
    ELSE IF ~header_text(h) THEN AuthErr("MissingAuthorization")
    ELSE IF h.prefix # "Bearer " THEN AuthErr("InvalidAuthorizationScheme")
    ELSE AuthErr("Jwt")

authorize_bearer_header(cfg, h, required) ==
    IF ~cfg.enabled THEN AuthOk(NoText)
    ELSE IF ~cfg.jwt_secret.some THEN AuthErr("MissingAuthorization")
    ELSE IF ~header_text(h) THEN AuthErr("MissingAuthorization")
    ELSE IF h.prefix # "Bearer " THEN AuthErr("InvalidAuthorizationScheme")
    ELSE IF ~decode(h.token, cfg.jwt_secret.val) THEN AuthErr("Jwt")
    ELSE LET r == role_from_claims(h.token) IN
         IF ~r.ok THEN r
         ELSE IF ~role_allows(r.role.val, required) THEN AuthErr("Forbidden")
         ELSE AuthOk(r.role)

\* ------------------------------------------------------------ the services
MaxRequests == 1      \* requests one service run receives
Requests == 1..MaxRequests

\* The entry points: the REST routes and the gRPC Query method.
Fronts == {"/health", "/query", "/tables", "grpc"}

\* An existing route the router puts behind no middleware.
RouteLayer_tables_open(front) ==
    IF front = "/query" THEN Text("Read") ELSE NoText

\* router(): the permission of the auth_middleware layered on a route.
RouteLayer(front) ==
    CASE front = "/query" -> Text("Read")
      [] front = "/tables" -> Text("Write")
      [] OTHER -> NoText

\* map_auth_error of the REST service
map_auth_error_http(err) == IF err = "Forbidden" THEN 403 ELSE 401

\* map_auth_error of the gRPC service
map_auth_error_grpc(err) == IF err = "Forbidden" THEN "permission_denied" ELSE "unauthenticated"

\* stage: "none", "routed" (matched to its entry point), "next" (admitted,
\* the handler is to run), "responded"
\* required: the permission the authorization was asked for ("" when none was)
NoRequest == [cfg |-> [enabled |-> FALSE, jwt_secret |-> NoText], front |-> "none",
              header |-> NoHeader, stage |-> "none", required |-> "", auth |-> NoAuth,
              http |-> 0, grpc |-> "", handler |-> 0]

InitAuth ==
    /\ hs = [s \in Storages |-> NoStorage]
    /\ \E cfg \in Configs : calls = [k \in Requests |-> [NoRequest EXCEPT !.cfg = cfg]]
    /\ res = [k \in Requests |-> NoResult]
    /\ crashed = FALSE

\* A request reaches its entry point.
Receive(k, front, h) ==
    /\ calls[k].stage = "none"
    /\ \A j \in Requests : j < k => calls[j].stage # "none"
    /\ calls' = [calls EXCEPT ![k] = [@ EXCEPT !.front = front, !.header = h, !.stage = "routed"]]
    /\ UNCHANGED <<hs, res, crashed>>

\* auth_middleware up to next.run(req)
auth_middleware(k) ==
    /\ calls[k].stage = "routed"
    /\ calls[k].front \in {"/health", "/query", "/tables"}
    /\ RouteLayer(calls[k].front).some
    /\ LET required == RouteLayer(calls[k].front).val
           a == authorize_bearer_header(calls[k].cfg, calls[k].header, required) IN
       calls' = [calls EXCEPT ![k] =
                    IF a.ok
                    THEN [@ EXCEPT !.required = required, !.auth = a, !.stage = "next"]
                    ELSE [@ EXCEPT !.required = required, !.auth = a, !.stage = "responded",
                                   !.http = map_auth_error_http(a.err)]]
    /\ UNCHANGED <<hs, res, crashed>>

\* The handler of a REST route (health, query, create_table) answers 200.
rest_handler(k) ==
    /\ calls[k].front \in {"/health", "/query", "/tables"}
    /\ \/ calls[k].stage = "routed" /\ ~RouteLayer(calls[k].front).some
       \/ calls[k].stage = "next"
    /\ calls' = [calls EXCEPT ![k] = [@ EXCEPT !.handler = @ + 1, !.http = 200,
                                              !.stage = "responded"]]
    /\ UNCHANGED <<hs, res, crashed>>

\* The interceptor of serve_with_listener.
interceptor(k) ==
    /\ calls[k].stage = "routed"
    /\ calls[k].front = "grpc"
    /\ calls' = [calls EXCEPT ![k] =
                    IF ~calls[k].cfg.enabled
                    THEN [@ EXCEPT !.stage = "next"]
                    ELSE LET a == authorize_bearer_header(calls[k].cfg, calls[k].header, "Read") IN
                         IF a.ok
                         THEN [@ EXCEPT !.required = "Read", !.auth = a, !.stage = "next"]
                         ELSE [@ EXCEPT !.required = "Read", !.auth = a, !.stage = "responded",
                                        !.grpc = map_auth_error_grpc(a.err)]]
    /\ UNCHANGED <<hs, res, crashed>>

\* QueryServiceImpl::query is entered and returns its response stream.
grpc_query(k) ==
    /\ calls[k].front = "grpc"
    /\ calls[k].stage = "next"
    /\ calls' = [calls EXCEPT ![k] = [@ EXCEPT !.handler = @ + 1, !.grpc = "ok",
                                              !.stage = "responded"]]
    /\ UNCHANGED <<hs, res, crashed>>

NextAuth ==
    \/ \E k \in Requests, front \in Fronts, h \in Headers : Receive(k, front, h)
    \/ \E k \in Requests : auth_middleware(k)
    \/ \E k \in Requests : rest_handler(k)
    \/ \E k \in Requests : interceptor(k)
    \/ \E k \in Requests : grpc_query(k)

SpecAuth == InitAuth /\ [][NextAuth]_vars

\* ---------------------------------------------- the gRPC stream specification
\* Requests the interceptor admitted; QueryServiceImpl::query builds the
\* channel, spawns the producer task and returns the receiving stream, which
\* the client reads until its end or drops.
GrpcQueries == {"SELECT 1", "", "x"}

\* tokio::sync::mpsc::channel(8)
ChannelCap == 8

\* serde_json::json!({"echo": query, "row": n}).to_string()
json_row(query, n) == [echo |-> query, row |-> n]

\* A producer that builds two rows only.
rows_of_two(query) == << json_row(query, 1), json_row(query, 2) >>

\* let rows = [ ... row 1, ... row 2, ... row 3 ]
rows_of(query) == << json_row(query, 1), json_row(query, 2), json_row(query, 3) >>

\* made: the channel exists; tx / rx: the Sender / ReceiverStream is alive;
\* ppc: the producer task ("none", "send", "done"); i: index of the row it
\* sends next; buf: rows in the channel; got: rows the client has received;
\* eos: the client has seen the end of the stream.
NoStream == [made |-> FALSE, query |-> "", tx |-> FALSE, rx |-> FALSE, ppc |-> "none",
             i |-> 0, buf |-> <<>>, got |-> <<>>, eos |-> FALSE]

InitGrpc ==
    /\ hs = [s \in Storages |-> NoStorage]
    /\ calls = [k \in Requests |-> [NoRequest EXCEPT !.front = "grpc", !.stage = "next"]]
    /\ res = [k \in Requests |-> NoStream]
    /\ crashed = FALSE

\* QueryServiceImpl::query: the channel is made, the producer spawned and the
\* stream returned.
GrpcQuery(k, q) ==
    /\ calls[k].front = "grpc" /\ calls[k].stage = "next"
    /\ calls' = [calls EXCEPT ![k] = [@ EXCEPT !.handler = @ + 1, !.grpc = "ok",
                                              !.stage = "responded"]]
    /\ res' = [res EXCEPT ![k] = [NoStream EXCEPT !.made = TRUE, !.query = q, !.tx = TRUE,
                                                  !.rx = TRUE, !.ppc = "send", !.i = 1]]
    /\ UNCHANGED <<hs, crashed>>

\* One turn of the producer's loop: tx.send(Ok(QueryRow { json })).await fails
\* when the receiver is gone (break), waits while the channel is full, and
\* otherwise queues the row; after the loop the task ends and tx is dropped.
ProducerSend(k) ==
    /\ res[k].ppc = "send"
    /\ LET rows == rows_of(res[k].query) IN
       IF res[k].i > Len(rows)
       THEN res' = [res EXCEPT ![k] = [@ EXCEPT !.ppc = "done", !.tx = FALSE]]
       ELSE IF ~res[k].rx
       THEN res' = [res EXCEPT ![k] = [@ EXCEPT !.ppc = "done", !.tx = FALSE]]
       ELSE /\ Len(res[k].buf) < ChannelCap
            /\ res' = [res EXCEPT ![k] = [@ EXCEPT !.buf = Append(@, rows[res[k].i]),
                                                   !.i = @ + 1]]
    /\ UNCHANGED <<hs, calls, crashed>>

\* The client polls the stream: the next queued row, or the end of the stream
\* once the channel is empty and the sender dropped.
ClientRecv(k) ==
    /\ res[k].rx /\ ~res[k].eos
    /\ IF res[k].buf # <<>>
       THEN res' = [res EXCEPT ![k] = [@ EXCEPT !.got = Append(@, Head(res[k].buf)),
                                                !.buf = Tail(@)]]
       ELSE /\ ~res[k].tx
            /\ res' = [res EXCEPT ![k] = [@ EXCEPT !.eos = TRUE]]
    /\ UNCHANGED <<hs, calls, crashed>>

\* The client drops the stream before its end: the receiver is closed and the
\* queued rows are discarded.
ClientDrop(k) ==
    /\ res[k].rx /\ ~res[k].eos
    /\ res' = [res EXCEPT ![k] = [@ EXCEPT !.rx = FALSE, !.buf = <<>>]]
    /\ UNCHANGED <<hs, calls, crashed>>

NextGrpc ==
    \/ \E k \in Requests, q \in GrpcQueries : GrpcQuery(k, q)
    \/ \E k \in Requests : ProducerSend(k)
    \/ \E k \in Requests : ClientRecv(k)
    \/ \E k \in Requests : ClientDrop(k)

\* The runtime keeps polling the spawned producer, and a client that holds the
\* stream keeps reading it.
FairGrpc == \A k \in Requests : WF_vars(ProducerSend(k)) /\ WF_vars(ClientRecv(k))

SpecGrpc == InitGrpc /\ [][NextGrpc]_vars /\ FairGrpc

\* ================================================================== claims
\* A bridged call is in flight from its dispatch to the end of its worker.
InFlight(c) == c.kind = "async" /\ c.wpc \in {"queued", "exec", "drain"}

\* C1: destroy-storage is never called on a storage resource while a bridged
\* call holding its token is in flight, and no native execute-query is ever
\* issued on a resource that was already destroyed.
C1_NoDestroyWhileInFlight ==
    /\ \A k \in Calls : InFlight(calls[k]) => ~StorageDestroyed(calls[k].token)
    /\ \A s \in Storages : ~hs[s].uad

\* C2: for every successful Storage::new, destroy-storage is called exactly
\* once, only when the owning Storage is dropped, and no native call uses the
\* resource after it.
C2_DestroyOnceAfterLastUse ==
    \A s \in Storages :
        hs[s].ret > 0 =>
            /\ hs[s].dsCalls <= 1
            /\ (hs[s].st = "dropped") <=> (hs[s].dsCalls = 1)
            /\ ~hs[s].uad

\* C3: every result resource a successful execute-query returned is released
\* by destroy-result exactly once: never twice, exactly when its owning
\* ResultSet is gone, whatever was consumed, and before its worker is done.
C3_ResultReleasedOnce ==
    \A k \in Calls :
        /\ res[k].made <=> calls[k].execRet > 0
        /\ res[k].drCalls <= 1
        /\ res[k].drCalls = 1 <=> (res[k].made /\ res[k].owner = "dropped")
        /\ (res[k].made /\ WorkerFinished(calls[k]) /\ calls[k].kind = "async")
               => res[k].drCalls = 1

\* Witness of C3: a cursor released after part of its rows was consumed, and a
\* worker's cursor released after all of them.
C3_Witness ==
    \E j, k \in Calls :
        /\ calls[j].kind = "sync" /\ res[j].drCalls = 1 /\ res[j].pos = 1
        /\ calls[k].kind = "async" /\ res[k].drCalls = 1 /\ res[k].pos = 3

\* C4: in a bridged call the cursor is created, drained and destroyed on the
\* worker before the outcome is delivered: when the worker's value is ready,
\* and so when the caller holds the rows, the call's result resource has been
\* released and the row list is all that is left of it.
C4_CursorGoneBeforeDelivery ==
    \A k \in Calls :
        calls[k].kind = "async" =>
            /\ (calls[k].wpc = "done" /\ calls[k].join.tag = "Ok")
                   => (res[k].made /\ res[k].drCalls = 1 /\ res[k].owner = "dropped")
            /\ calls[k].fut = "returned"
                   => (calls[k].wpc = "done" /\ calls[k].got = calls[k].join)
            /\ calls[k].got.tag = "Ok"
                   => (res[k].drCalls = 1 /\ res[k].rows = <<>> /\ res[k].fr = NoFrame)

\* Witness of C4: the caller received two rows from a bridged call.
C4_Witness ==
    \E k \in Calls :
        /\ calls[k].kind = "async" /\ calls[k].fut = "returned"
        /\ calls[k].got = OkRows(<< <<<<97>>>>, <<<<>>>> >>)

\* C5: when the worker panics or is cancelled, the caller receives the typed
\* failure WorkerFailed as an error result; the caller is not aborted.
C5_WorkerFailureIsTypedError ==
    \A k \in Calls :
        (calls[k].kind = "async" /\ calls[k].wpc \in {"panicked", "cancelled"}
            /\ calls[k].fut \notin {"awaiting", "dropped"})
        => (calls[k].fut = "returned" /\ calls[k].got = Err("WorkerFailed"))

\* C6: a query text holding the NUL byte fails before the native boundary, in
\* the sync and in the bridged form: execute-query is not invoked for the
\* call, no result resource exists, and the failure is a panic of the caller
\* ("query contains NUL" / the worker's panic), never ExecuteQueryFailed.
C6_NulQueryStopsBeforeNative ==
    \A k \in Calls :
        (calls[k].kind # "none" /\ ContainsNul(calls[k].query)) =>
            /\ calls[k].execs = 0 /\ calls[k].execRet = -1
            /\ ~res[k].made
            /\ calls[k].wpc \notin {"exec", "drain", "done"}
            /\ calls[k].got.tag \in {"None", "Panic"}
            /\ calls[k].join.tag \in {"None", "Panic"}
            /\ calls[k].kind = "sync" => calls[k].got = Panic("query contains NUL")
            /\ calls[k].fut \in {"returned", "panicked"} => calls[k].got.tag = "Panic"

\* Witness of C6: a sync and a bridged call with a NUL in the text both failed.
C6_Witness ==
    \E j, k \in Calls :
        /\ calls[j].kind = "sync" /\ ContainsNul(calls[j].query)
        /\ calls[j].got.tag = "Panic"
        /\ calls[k].kind = "async" /\ ContainsNul(calls[k].query)
        /\ calls[k].fut = "panicked"

\* C7: Storage::new fails with CreateStorageFailed exactly when the native
\* create-storage returned null, and then no handle exists and destroy-storage
\* is never called for the attempt; a handle always wraps the non-null
\* pointer the native call returned.
C7_CreateFailsIffNull ==
    \A s \in Storages :
        /\ hs[s].st = "none" <=> hs[s].ret = -1
        /\ hs[s].st = "failed" <=> hs[s].ret = 0
        /\ hs[s].st = "failed" => (hs[s].raw = 0 /\ hs[s].dsCalls = 0)
        /\ hs[s].st \in {"owned", "dropped"} => (hs[s].raw # 0 /\ hs[s].raw = hs[s].ret)
        /\ hs[s].dsCalls > 0 => hs[s].st = "dropped"

\* Witness of C7: the native create returned null and the attempt failed.
C7_Witness == \E s \in Storages : hs[s].st = "failed" /\ hs[s].ret = 0

EQF == Err("ExecuteQueryFailed")

\* C8, state part: a call whose execute-query returned null has no result
\* resource and the outcome ExecuteQueryFailed, and only such a call has it;
\* every storage is destroyed at most once, and once when its owner is dropped.
C8_Inv ==
    /\ \A k \in Calls :
        /\ (calls[k].execs = 1 /\ calls[k].execRet = 0) =>
            /\ ~res[k].made /\ res[k].drCalls = 0
            /\ calls[k].kind = "sync" => calls[k].got = EQF
            /\ calls[k].kind = "async" =>
                   (calls[k].wpc = "done" /\ calls[k].join = EQF
                      /\ (calls[k].fut = "returned" => calls[k].got = EQF))
        /\ (calls[k].got = EQF \/ calls[k].join = EQF) => calls[k].execRet = 0
    /\ \A s \in Storages : hs[s].dsCalls <= 1 /\ (hs[s].st = "dropped" => hs[s].dsCalls = 1)

\* C8, step part: the step in which execute-query returns null changes no
\* result and leaves every Storage handle as it was.
C8_Step ==
    \A k \in Calls :
        (calls[k].execRet # 0 /\ calls'[k].execRet = 0) =>
            /\ res' = res
            /\ \A s \in Storages :
                   /\ hs'[s].st = hs[s].st
                   /\ hs'[s].raw = hs[s].raw
                   /\ hs'[s].dsCalls = hs[s].dsCalls

\* C8: when the native execute-query returns null the query (sync or bridged)
\* fails with ExecuteQueryFailed, no cursor is created and destroy-result is
\* not called; the step leaves the Storage handle and every result as they
\* were, and the storage is still destroyed exactly once by its owner.
C8_NullResultFailsQueryOnly == []C8_Inv /\ [][C8_Step]_vars

\* Witness of C8: a query failed with ExecuteQueryFailed, a later query on the
\* same handle returned rows, and the storage was then destroyed once.
C8_Witness ==
    \E j, k \in Calls :
        /\ j < k /\ calls[j].sid = calls[k].sid
        /\ calls[j].kind = "sync" /\ calls[j].got = EQF
        /\ calls[k].execRet > 0 /\ calls[k].fut = "returned" /\ calls[k].got.tag = "Ok"
        /\ hs[calls[j].sid].st = "dropped" /\ hs[calls[j].sid].dsCalls = 1

\* A cursor on which all_rows_as_strings has returned, not yet dropped.
Drained(n) == n.made /\ n.owner = "sync" /\ n.fr.pc = "ret"

\* C9: for a result set of N rows and M >= 0 columns all_rows_as_strings
\* returns N rows in native order, each of length M, holding at position i
\* the native string of column i, or "" where the native side returned null.
C9_DrainShape ==
    \A k \in Calls :
        (Drained(res[k]) /\ res[k].ncols >= 0) =>
            /\ Len(res[k].fr.out) = Len(res[k].rows)
            /\ \A r \in 1..Len(res[k].rows) :
                /\ Len(res[k].fr.out[r]) = res[k].ncols
                /\ \A i \in 1..res[k].ncols :
                    LET c == res[k].rows[r][i] IN
                    /\ c.null => res[k].fr.out[r][i] = <<>>
                    /\ (~c.null /\ \A j \in 1..Len(c.bytes) : c.bytes[j] < 128)
                           => res[k].fr.out[r][i] = c.bytes

\* Witness of C9: two rows of two columns, ["a", null] and [null, "a"], drained.
C9_Witness ==
    \E k \in Calls :
        /\ Drained(res[k])
        /\ res[k].rows = << <<CStrOf(<<97>>), NullPtr>>, <<NullPtr, CStrOf(<<97>>)>> >>
        /\ res[k].fr.out = << << <<97>>, <<>> >>, << <<>>, <<97>> >> >>

\* C10 as claimed: with a column count of 0, all_rows_as_strings returns an
\* empty row list however many rows next-row reports.
C10_ZeroColumnsEmptyList ==
    \A k \in Calls :
        (Drained(res[k]) /\ res[k].ncols = 0) => res[k].fr.out = <<>>

\* C10 amended: with a column count of 0, all_rows_as_strings returns without
\* error one empty row for each row next-row reports; the list is empty
\* exactly when next-row reports no row.
C10_ZeroColumnsOneEmptyRowPerRow ==
    \A k \in Calls :
        (Drained(res[k]) /\ res[k].ncols = 0) =>
            /\ Len(res[k].fr.out) = Len(res[k].rows)
            /\ \A r \in 1..Len(res[k].fr.out) : res[k].fr.out[r] = <<>>
            /\ res[k].fr.out = <<>> <=> res[k].rows = <<>>

\* Witness of C10: a result of no columns and two rows drained to two empty rows.
C10_Witness ==
    \E k \in Calls :
        /\ Drained(res[k]) /\ res[k].ncols = 0 /\ Len(res[k].rows) = 2
        /\ res[k].fr.out = << <<>>, <<>> >>

\* C11, state part: while a cursor reports a negative column count,
\* all_rows_as_strings makes no next-row and no get-string call: the cursor
\* stays before its first row and the returned list is empty.
C11_Inv ==
    \A k \in Calls :
        (res[k].made /\ res[k].owner = "sync" /\ res[k].ncols < 0) =>
            /\ res[k].fr.pc \in {"idle", "cc", "ret"}
            /\ res[k].pos = 0
            /\ res[k].fr.out = <<>>
            /\ res[k].drCalls = 0

\* C11, step part: every step of such a cursor leaves it unadvanced, and the
\* step that drops it calls destroy-result once.
C11_Step ==
    \A k \in Calls :
        (res[k].made /\ res[k].owner = "sync" /\ res[k].ncols < 0) =>
            /\ res'[k].pos = 0
            /\ res'[k].fr.pc \notin {"next", "get"}
            /\ res'[k].drCalls = (IF res'[k].owner = "dropped" THEN 1 ELSE 0)

\* C11: when the native column count is negative, all_rows_as_strings returns
\* the empty list with success, without advancing the cursor or reading any
\* column, and the result resource is still released exactly once.
C11_NegativeColumnsEmptyNoReads == []C11_Inv /\ [][C11_Step]_vars

\* Witness of C11: a result reporting -1 columns and two native rows was
\* drained to the empty list with the cursor still before the first row.
C11_Witness ==
    \E k \in Calls :
        /\ Drained(res[k]) /\ res[k].ncols = -1 /\ Len(res[k].rows) = 2
        /\ res[k].fr.out = <<>> /\ res[k].pos = 0

\* A native cell that is null or not valid UTF-8.
Unreadable(c) == c.null \/ \E j \in 1..Len(c.bytes) : c.bytes[j] >= 128

\* The text all_rows_as_strings is to put in a row for a native cell.
CellText(c) == IF Unreadable(c) THEN <<>> ELSE c.bytes

\* C12: a column whose native value is null or invalid text yields nothing
\* from get_string and the empty string in the row; it never aborts the
\* materialization: the row keeps its full length, the other columns keep
\* their values, and the following rows are still produced.
C12_BadCellIsEmptyString ==
    \A k \in Calls :
        LET n == res[k] IN
        /\ (n.made /\ n.fr.pc = "get") =>
               (Unreadable(NativeGetString(n, n.fr.i)) <=> get_string(n, n.fr.i) = None)
        /\ (n.made /\ n.fr.pc \in {"next", "get", "ret"} /\ n.fr.cols >= 0) =>
               \A r \in 1..Len(n.fr.out) :
                   /\ Len(n.fr.out[r]) = n.ncols
                   /\ \A i \in 1..n.ncols : n.fr.out[r][i] = CellText(n.rows[r][i])
        /\ (Drained(n) /\ n.ncols >= 0) => Len(n.fr.out) = Len(n.rows)

\* Witness of C12: the rows [invalid, "a"] and [null, "a"] were drained to
\* ["", "a"] and ["", "a"].
C12_Witness ==
    \E k \in Calls :
        /\ Drained(res[k])
        /\ res[k].rows = << <<CStrOf(<<255>>), CStrOf(<<97>>)>>, <<NullPtr, CStrOf(<<97>>)>> >>
        /\ res[k].fr.out = << << <<>>, <<97>> >>, << <<>>, <<97>> >> >>

\* The worker of a bridged call has not finished and its caller still waits.
WaitingOnWorker(c) ==
    c.kind = "async" /\ c.fut = "awaiting" /\ c.wpc \in {"queued", "exec", "drain"}

NativeStepOf(k) ==
    \/ calls'[k].execs # calls[k].execs
    \/ res'[k].pos # res[k].pos
    \/ res'[k].drCalls # res[k].drCalls
    \/ res[k].fr.pc \in {"cc", "next", "get"} /\ res'[k].fr # res[k].fr

\* A step in which create-storage or destroy-storage is called.
StorageStep == \E s \in Storages : hs'[s].ret # hs[s].ret \/ hs'[s].dsCalls # hs[s].dsCalls

\* The step is made by the spawn_blocking closure of call k, on a thread of
\* the blocking pool: the closure is running and the caller's future is not
\* being polled.
OnWorker(k) ==
    /\ calls[k].kind = "async"
    /\ calls[k].wpc \in {"exec", "drain"}
    /\ calls[k].fut \in {"awaiting", "dropped"}
    /\ calls'[k].fut = calls[k].fut

\* The step is made by the code that called the synchronous API, on its own
\* thread: no worker exists for the call.
OnCaller(k) == calls'[k].kind = "sync" /\ calls'[k].wpc = "none"

\* C14 as claimed: every native call of the core, create-storage and
\* destroy-storage included, is made on a worker of the blocking pool.
C14_AllNativeCallsOnBlockingPool ==
    [][ /\ ~StorageStep
        /\ \A k \in Calls : NativeStepOf(k) => OnWorker(k) ]_vars

C14_Inv ==
    \A k \in Calls :
        res[k].made =>
            /\ calls[k].kind = "async" <=> res[k].owner \in {"worker", "dropped"} /\ calls[k].wpc # "none"
            /\ calls[k].kind = "sync" => res[k].owner \in {"sync", "dropped"}

C14_Step ==
    /\ \A k \in Calls :
        NativeStepOf(k) => IF calls'[k].kind = "async" THEN OnWorker(k) ELSE OnCaller(k)
    /\ StorageStep => \A k \in Calls : calls'[k] = calls[k] /\ res'[k] = res[k]

\* C14 amended: the native calls of a bridged call (execute-query, the cursor
\* operations and destroy-result) are made by its spawn_blocking closure on
\* the blocking pool, never by the polling caller; the native calls of the
\* synchronous execute_query and of its cursor are made on the thread of the
\* caller, and so are create-storage and destroy-storage, which no worker makes.
C14_BridgedNativeCallsOnBlockingPool == []C14_Inv /\ [][C14_Step]_vars

\* Witness of C14: a synchronous call and a bridged call have both executed a
\* query and released their results, and the storage was then destroyed.
C14_Witness ==
    \E j, k \in Calls :
        /\ calls[j].kind = "sync" /\ calls[j].execs = 1 /\ res[j].drCalls = 1
        /\ calls[k].kind = "async" /\ calls[k].execs = 1 /\ res[k].drCalls = 1
        /\ hs[calls[k].sid].dsCalls = 1

\* The row list a result set is to be materialized to.
Materialized(sh) ==
    [r \in 1..Len(sh.rows) |-> [i \in 1..sh.ncols |-> CellText(sh.rows[r][i])]]

\* C15, state part: a worker that is draining can always take its next step,
\* whatever the other workers do (no mutual exclusion), and a call returns
\* exactly the rows of the result set of its own query.
C15_Inv ==
    \A k \in Calls :
        /\ calls[k].wpc = "drain" => (ENABLED DrainStep(k) \/ ENABLED WorkerDropRs(k))
        /\ calls[k].join.tag # "None" => calls[k].join = OkRows(Materialized(FakeData(calls[k].query)))
        /\ calls[k].fut = "returned" => calls[k].got = OkRows(Materialized(FakeData(calls[k].query)))

\* C15: bridged calls issued concurrently on one Storage run on their workers
\* at the same time without mutual exclusion; each completes and returns
\* exactly the rows of its own result set, in every interleaving.
C15_ConcurrentCallsKeepOwnRows ==
    []C15_Inv /\ <>[](\A k \in Calls : calls[k].fut = "returned")

\* Witness of C15: two calls with different queries, both in the middle of
\* their drain at the same time, each holding a row of its own query.
C15_Witness ==
    \E j, k \in Calls :
        /\ calls[j].query # calls[k].query
        /\ calls[j].wpc = "drain" /\ calls[k].wpc = "drain"
        /\ res[j].fr.out = << << calls[j].query, <<>> >> >>
        /\ res[k].fr.out = << << calls[k].query, <<>> >> >>

\* C16, state part: to a caller that gave up nothing is delivered; while the
\* process lives its worker can always take its next step; and a worker that
\* got a result and finished has drained it, destroyed it exactly once and
\* left the rows in a join handle nobody reads.
C16_Inv ==
    \A k \in Calls :
        calls[k].fut = "dropped" =>
            /\ calls[k].got = NoOutcome
            /\ ~crashed =>
                   /\ calls[k].wpc = "queued" => ENABLED WorkerStart(k)
                   /\ calls[k].wpc = "exec" => ENABLED WorkerExec(k)
                   /\ calls[k].wpc = "drain" => (ENABLED DrainStep(k) \/ ENABLED WorkerDropRs(k))
            /\ (calls[k].wpc = "done" /\ calls[k].execRet > 0) =>
                   /\ res[k].drCalls = 1 /\ res[k].pos = 3
                   /\ calls[k].join.tag = "Ok" /\ Len(calls[k].join.rows) = 2

\* C16, step part: the step in which the caller gives up changes nothing of
\* its worker or of any result, and a caller that gave up stays so.
C16_Step ==
    \A k \in Calls :
        /\ (calls[k].fut # "dropped" /\ calls'[k].fut = "dropped") =>
               /\ calls'[k] = [calls[k] EXCEPT !.fut = "dropped"]
               /\ res' = res /\ hs' = hs
        /\ calls[k].fut = "dropped" =>
               (calls'[k].fut = "dropped" /\ calls'[k].got = NoOutcome)

\* C16: once a bridged call is dispatched, a caller that stops waiting does
\* not cancel the worker: the worker goes on to the native execute-query
\* call, drains and destroys its cursor exactly once and discards the rows;
\* nothing is delivered to the caller that gave up.
C16_GiveUpDoesNotCancelWorker == []C16_Inv /\ [][C16_Step]_vars

\* Witness of C16: the caller gave up and the worker has since finished a
\* full drain and released its cursor.
C16_Witness ==
    \E k \in Calls :
        /\ calls[k].fut = "dropped" /\ calls[k].wpc = "done"
        /\ calls[k].join = OkRows(<< <<<<97>>>>, <<<<>>>> >>)
        /\ res[k].drCalls = 1 /\ calls[k].got = NoOutcome

\* Calls j (synchronous) and k (bridged) were given the same query text and
\* the native execute-query answered both alike (not called, null, result).
SameCase(j, k) ==
    /\ calls[j].kind = "sync" /\ calls[k].kind = "async"
    /\ calls[j].query = calls[k].query
    /\ calls[j].got # NoOutcome
    /\ calls[k].fut \in {"returned", "panicked"}
    /\ (calls[j].execRet = 0) <=> (calls[k].execRet = 0)

\* C17: for the same query text and the same native answer the bridged form
\* ends as the synchronous execute_query followed by all_rows_as_strings: both
\* fail before the native call on a NUL, both fail with ExecuteQueryFailed on
\* a null result, both produce the same row list on success; and the native
\* calls on the result resource are the same (same walk of the cursor, one
\* destroy-result).
C17_BridgedEqualsSyncThenDrain ==
    \A j, k \in Calls :
        /\ SameCase(j, k) =>
              /\ calls[j].execs = calls[k].execs
              /\ calls[j].got.tag = "Panic" <=> calls[k].got.tag = "Panic"
              /\ calls[j].got = EQF <=> calls[k].got = EQF
              /\ calls[j].got.tag = "Ok" <=> calls[k].got.tag = "Ok"
              /\ res[j].made <=> res[k].made
              /\ Drained(res[j]) => calls[k].got = OkRows(res[j].fr.out)
              /\ (res[j].owner = "dropped" /\ res[j].fr.pc = "idle" /\ res[j].pos > 0) =>
                     (res[j].pos = res[k].pos /\ res[j].drCalls = res[k].drCalls)
        /\ (calls[j].kind = "sync" /\ calls[k].kind = "async"
              /\ res[j].made /\ res[k].made
              /\ res[j].fr.pc \in {"next", "get", "ret"}
              /\ res[j].fr.pc = res[k].fr.pc /\ res[j].fr.i = res[k].fr.i
              /\ res[j].pos = res[k].pos)
           => res[j].fr = res[k].fr

\* Witness of C17: the same text run in both forms with a result each: the
\* caller has drained its cursor to the two rows the bridged call returned.
C17_Witness ==
    \E j, k \in Calls :
        /\ SameCase(j, k) /\ Drained(res[j])
        /\ res[j].fr.out = << <<<<97>>>>, <<<<>>>> >>
        /\ calls[k].got = OkRows(res[j].fr.out)

\* A step of the worker of call k (or of the runtime on its queued task).
WorkerStep(k) ==
    /\ calls[k].wpc \in {"queued", "exec", "drain"}
    /\ \/ calls'[k].wpc # calls[k].wpc
       \/ calls'[k].execs # calls[k].execs
       \/ res'[k] # res[k]

C18_Inv ==
    \A s \in Storages : hs[s].dsCalls = (IF hs[s].st = "dropped" THEN 1 ELSE 0)

C18_Step ==
    \A k \in Calls :
        WorkerStep(k) =>
            \A s \in Storages : hs'[s].dsCalls = hs[s].dsCalls /\ hs'[s].st = hs[s].st

\* C18: the token gives the worker no ownership: no worker step, on success
\* or on a failure path, calls destroy-storage; the number of destroy-storage
\* calls on a storage is 1 when its owning Storage was dropped and 0
\* otherwise, however many bridged calls were made on it.
C18_TokenConfersNoOwnership == []C18_Inv /\ [][C18_Step]_vars

\* Witness of C18: two bridged calls on one storage have ended, one with rows
\* and one with ExecuteQueryFailed, and the storage, dropped by its owner, was
\* destroyed once.
C18_Witness ==
    \E j, k \in Calls :
        /\ calls[j].kind = "async" /\ calls[j].wpc = "done" /\ calls[j].join.tag = "Ok"
        /\ calls[k].kind = "async" /\ calls[k].wpc = "done" /\ calls[k].join = EQF
        /\ calls[j].token = calls[k].token
        /\ \E s \in Storages :
               hs[s].ret = calls[j].token /\ hs[s].st = "dropped" /\ hs[s].dsCalls = 1

\* C19: when the caller drops a Storage only under the documented
\* precondition, no native call is ever made on a destroyed storage: none has
\* been used after its destruction, no worker that has yet to run holds the
\* token of a destroyed storage, no live cursor belongs to a destroyed
\* storage, and the process never dies in a native call.
C19_PreconditionPreventsUseAfterDestroy ==
    /\ ~crashed
    /\ \A s \in Storages : ~hs[s].uad
    /\ \A k \in Calls :
        /\ calls[k].wpc \in {"queued", "exec", "drain"} => ~StorageDestroyed(calls[k].token)
        /\ (res[k].made /\ res[k].owner \in {"sync", "worker"}) => ~StorageDestroyed(res[k].sid)

\* Witness of C19: a Storage was destroyed after a synchronous call whose
\* cursor was dropped and a bridged call that returned its rows.
C19_Witness ==
    \E s \in Storages, j, k \in Calls :
        /\ hs[s].st = "dropped" /\ hs[s].dsCalls = 1
        /\ calls[j].sid = s /\ calls[j].kind = "sync" /\ res[j].drCalls = 1
        /\ calls[k].sid = s /\ calls[k].kind = "async" /\ calls[k].fut = "returned"
        /\ calls[k].got.tag = "Ok"

\* C20: a cursor returned by the synchronous execute_query never outlives
\* its Storage: in every sequence of caller operations no cursor is still
\* alive (to be advanced, read or destroyed) once destroy-storage was called
\* on the storage that produced it.
C20_CursorNeverOutlivesStorage ==
    \A k \in Calls :
        (calls[k].kind = "sync" /\ res[k].made /\ res[k].owner = "sync")
            => ~StorageDestroyed(res[k].sid)

\* C21: with authorization enabled, the handler of /query (Read) and of
\* /tables (Write) runs only after authorize_bearer_header succeeded for the
\* route's permission; a request without an Authorization header is answered
\* 401 and its handler is not run.
C21_ProtectedRouteNeedsAuth ==
    \A k \in Requests :
        LET c == calls[k] IN
        (c.cfg.enabled /\ c.front \in {"/query", "/tables"}) =>
            /\ c.stage # "routed" =>
                   c.auth = authorize_bearer_header(c.cfg, c.header, c.required)
            /\ (c.stage = "next" \/ c.handler > 0) =>
                   /\ c.auth.ok
                   /\ c.required = (IF c.front = "/query" THEN "Read" ELSE "Write")
            /\ c.handler <= 1
            /\ ~c.header.present =>
                   /\ c.handler = 0 /\ c.stage # "next"
                   /\ c.stage = "responded" => c.http = 401

\* Witness of C21: with authorization enabled and a secret configured, a
\* request to /query without an Authorization header was answered 401.
C21_Witness ==
    \E k \in Requests :
        /\ calls[k].cfg.enabled /\ calls[k].cfg.jwt_secret.some
        /\ calls[k].front = "/query" /\ ~calls[k].header.present
        /\ calls[k].stage = "responded" /\ calls[k].http = 401 /\ calls[k].handler = 0

\* C22, state part: what the client has received is a prefix of row 1, row 2,
\* row 3 of its own query, and it sees the end of the stream only after all
\* three; the producer never sends a fourth row.
C22_Inv ==
    \A k \in Requests :
        res[k].made =>
            /\ Len(res[k].got) <= 3
            /\ \A n \in 1..Len(res[k].got) :
                   res[k].got[n] = [echo |-> res[k].query, row |-> n]
            /\ \A n \in 1..Len(res[k].buf) :
                   res[k].buf[n] = [echo |-> res[k].query, row |-> Len(res[k].got) + n]
            /\ Len(res[k].got) + Len(res[k].buf) <= 3
            /\ res[k].eos => (Len(res[k].got) = 3 /\ res[k].ppc = "done")

\* C22: every admitted gRPC query streams exactly row 1, row 2, row 3, each
\* echoing the query text, and then ends; the producer task terminates, also
\* when the client drops the stream early, and a client that keeps reading
\* reaches the end of the stream.
C22_StreamsExactlyThreeRows ==
    /\ []C22_Inv
    /\ \A k \in Requests : (res[k].ppc = "send") ~> (res[k].ppc = "done")
    /\ \A k \in Requests : res[k].made ~> (res[k].eos \/ ~res[k].rx)

\* Witness of C22: the client received the three rows of "SELECT 1" and then
\* the end of the stream.
C22_Witness ==
    \E k \in Requests :
        /\ res[k].eos /\ res[k].query = "SELECT 1"
        /\ res[k].got = << [echo |-> "SELECT 1", row |-> 1], [echo |-> "SELECT 1", row |-> 2],
                           [echo |-> "SELECT 1", row |-> 3] >>

\* The stage of a bridged call in the state machine of the Blocking Bridge.
Stage(c) ==
    CASE c.kind # "async" -> "None"
      [] c.wpc = "none" -> "Requested"
      [] c.wpc = "queued" -> "Dispatched"
      [] c.wpc = "exec" -> "Executing"
      [] c.wpc = "drain" -> "Materializing"
      [] c.wpc = "done" /\ c.join.tag = "Ok" -> "Completed"
      [] OTHER -> "Failed"

\* The stage changes the state machine allows.
StageMoves ==
    { <<"None", "Requested">>, <<"Requested", "Dispatched">>,
      <<"Dispatched", "Executing">>, <<"Executing", "Materializing">>,
      <<"Materializing", "Completed">>,
      <<"Dispatched", "Failed">>, <<"Executing", "Failed">>, <<"Materializing", "Failed">> }

\* C23, state part: a caller holds an outcome only when its call is Completed
\* or Failed: the rows exactly when Completed, a failure when Failed; and a
\* waiting caller of a finished call can take its outcome.
C23_Inv ==
    \A k \in Calls :
        calls[k].kind = "async" =>
            /\ calls[k].got # NoOutcome <=> calls[k].fut \in {"returned", "panicked"}
            /\ calls[k].got # NoOutcome =>
                   /\ Stage(calls[k]) \in {"Completed", "Failed"}
                   /\ calls[k].got.tag = "Ok" <=> Stage(calls[k]) = "Completed"
                   /\ calls[k].got.tag \in {"Err", "Panic"} <=> Stage(calls[k]) = "Failed"
            /\ (calls[k].fut = "awaiting" /\ Stage(calls[k]) \in {"Completed", "Failed"}
                  /\ ~crashed) => ENABLED Deliver(k)

\* C23, step part: the stage changes only along the state machine, and an
\* outcome once delivered never changes.
C23_Step ==
    \A k \in Calls :
        /\ Stage(calls'[k]) # Stage(calls[k]) =>
               <<Stage(calls[k]), Stage(calls'[k])>> \in StageMoves
        /\ calls[k].got # NoOutcome => calls'[k].got = calls[k].got

\* C23: a bridged call goes through Requested, Dispatched, Executing,
\* Materializing, Completed in that order, may end in Failed only from
\* Dispatched, Executing or Materializing, and delivers to a caller that keeps
\* waiting one terminal outcome: the rows or a failure, never both and never
\* rows after a failure.
C23_StagesInOrderOneOutcome == []C23_Inv /\ [][C23_Step]_vars

\* Witness of C23: one call Completed and delivered its rows, another Failed
\* in Executing and delivered ExecuteQueryFailed.
C23_Witness ==
    \E j, k \in Calls :
        /\ Stage(calls[j]) = "Completed" /\ calls[j].fut = "returned"
        /\ calls[j].got = OkRows(<< <<<<97>>>>, <<<<>>>> >>)
        /\ Stage(calls[k]) = "Failed" /\ calls[k].fut = "returned" /\ calls[k].got = EQF

\* The AuthError variants.
AuthErrors == {"MissingAuthorization", "InvalidAuthorizationScheme", "Jwt",
               "MissingRole", "UnknownRole", "Forbidden"}

\* The request carries a bearer token signed with the configured secret, and
\* its authorization has been decided.
ValidlySigned(c) ==
    /\ c.cfg.enabled /\ c.cfg.jwt_secret.some
    /\ c.header.present /\ c.header.text /\ c.header.prefix = "Bearer "
    /\ c.header.token.wellformed /\ c.header.token.key = c.cfg.jwt_secret.val
    /\ c.required # ""

\* The decision the role table gives: "allow", "forbid" or "reject".
Decision(role, required) ==
    CASE role = Text("admin") -> "allow"
      [] role = Text("write") -> "allow"
      [] role = Text("read") -> IF required = "Read" THEN "allow" ELSE "forbid"
      [] OTHER -> "reject"

\* C24: with authorization enabled and a validly signed token the decision
\* depends only on the role claim and the required permission: admin and
\* write are allowed Read and Write, read is allowed Read and refused Write;
\* a refused role gives Forbidden (403 / permission_denied), a missing or
\* unknown role and every other failure give 401 / unauthenticated.
C24_RoleTable ==
    /\ \A k \in Requests :
        LET c == calls[k]
            d == Decision(c.header.token.role, c.required) IN
        /\ ValidlySigned(c) =>
              /\ d = "allow" <=> c.auth.ok
              /\ d = "allow" => (c.stage = "next" \/ c.handler = 1)
              /\ d = "forbid" <=> c.auth = AuthErr("Forbidden")
              /\ d = "forbid" => (c.handler = 0 /\ c.stage = "responded"
                                    /\ (c.front = "grpc" => c.grpc = "permission_denied")
                                    /\ (c.front # "grpc" => c.http = 403))
              /\ d = "reject" =>
                    /\ c.auth = AuthErr(IF c.header.token.role.some THEN "UnknownRole"
                                        ELSE "MissingRole")
                    /\ c.handler = 0 /\ c.stage = "responded"
                    /\ (c.front = "grpc" => c.grpc = "unauthenticated")
                    /\ (c.front # "grpc" => c.http = 401)
        /\ (c.required # "" /\ ~c.auth.ok /\ c.auth.err # "Forbidden") =>
              /\ c.stage = "responded" /\ c.handler = 0
              /\ (c.front = "grpc" => c.grpc = "unauthenticated")
              /\ (c.front # "grpc" => c.http = 401)
    /\ \A e \in AuthErrors :
        /\ map_auth_error_http(e) = (IF e = "Forbidden" THEN 403 ELSE 401)
        /\ map_auth_error_grpc(e) = (IF e = "Forbidden" THEN "permission_denied"
                                     ELSE "unauthenticated")

\* Witness of C24: a validly signed token with the role read was refused on
\* /tables with 403.
C24_Witness ==
    \E k \in Requests :
        /\ ValidlySigned(calls[k]) /\ calls[k].front = "/tables"
        /\ calls[k].header.token.role = Text("read")
        /\ calls[k].http = 403 /\ calls[k].handler = 0

\* The request went to a protected entry point and its admission is decided.
Decided(c) == c.front \in {"/query", "/tables", "grpc"} /\ c.stage \in {"next", "responded"}

\* C25: authorization is bypassed only by configuration and fails closed:
\* with enabled = false every request is admitted (Ok with no role) whatever
\* its header; with enabled = true and no secret configured every request is
\* rejected with MissingAuthorization (401 / unauthenticated) whatever its
\* header, and no protected handler runs.
C25_FailClosed ==
    \A k \in Requests :
        LET c == calls[k] IN
        /\ (Decided(c) /\ ~c.cfg.enabled) =>
              /\ c.stage = "next" \/ c.handler = 1
              /\ c.front # "grpc" => c.auth = AuthOk(NoText)
              /\ c.stage = "responded" =>
                    (IF c.front = "grpc" THEN c.grpc = "ok" ELSE c.http = 200)
        /\ (Decided(c) /\ c.cfg.enabled /\ ~c.cfg.jwt_secret.some) =>
              /\ c.auth = AuthErr("MissingAuthorization")
              /\ c.stage = "responded" /\ c.handler = 0
              /\ IF c.front = "grpc" THEN c.grpc = "unauthenticated" ELSE c.http = 401

\* Witness of C25: with no secret configured a request to /query carrying a
\* bearer token with the role admin was rejected with 401.
C25_Witness ==
    \E k \in Requests :
        /\ calls[k].cfg.enabled /\ ~calls[k].cfg.jwt_secret.some
        /\ calls[k].front = "/query"
        /\ calls[k].header = HeaderOf("Bearer ", Jwt("secret", Text("admin")))
        /\ calls[k].http = 401 /\ calls[k].handler = 0
====
